---- MODULE Spec2Model ----
(***************************************************************************)
(* KiroEasyPanelClient (configs/kiro-example.py): a synchronous REST       *)
(* client.  Every public method builds one request, hands it to            *)
(* requests.get / requests.post and turns the outcome of the exchange into *)
(* its return value.  The model keeps the client's two attributes, the     *)
(* last call, the requests that call handed to the library, the outcome of *)
(* the exchange and what the call gave back to its caller.                 *)
(***************************************************************************)
EXTENDS Integers, Sequences, FiniteSets, TLC

VARIABLES
    base_url,       \* self.base_url
    session_id,     \* self.session_id
    jsonErrorIsRequestException,
                    \* the installed requests: TRUE when Response.json() raises
                    \* requests.exceptions.JSONDecodeError (a RequestException,
                    \* requests >= 2.27), FALSE when it raises a plain ValueError
    call,           \* the last public method called, with its arguments
    sent,           \* the requests that call handed to requests.get / requests.post
    exchange,       \* what the HTTP exchange of that call did
    result,         \* what the call gave back: a returned value or a raised exception
    nCalls,         \* public method calls made so far
    nRequests       \* requests handed to the library so far

vars == <<base_url, session_id, jsonErrorIsRequestException, call, sent,
          exchange, result, nCalls, nRequests>>

\* Calls explored in one behaviour.
MaxCalls == 2

----------------------------------------------------------------------------
(* Python values.  Every value is a record of the same shape, so that any  *)
(* two of them can be compared: t is the Python type, and the field of     *)
(* that type holds the value.                                              *)

PyVal(t, b, n, s, list, dict) ==
    [t |-> t, b |-> b, n |-> n, s |-> s, list |-> list, dict |-> dict]

PyNone    == PyVal("None", FALSE, 0, "", <<>>, <<>>)
PyBool(b) == PyVal("bool", b, 0, "", <<>>, <<>>)
PyInt(n)  == PyVal("int", FALSE, n, "", <<>>, <<>>)
PyStr(s)  == PyVal("str", FALSE, 0, s, <<>>, <<>>)
PyList(xs) == PyVal("list", FALSE, 0, "", xs, <<>>)
PyDict(kv) == PyVal("dict", FALSE, 0, "", <<>>, kv)

EmptyDict == PyDict(<<>>)

\* Python's truth value of v, as `if v:` and `v or w` test it.
Truthy(v) ==
    CASE v.t = "None" -> FALSE
      [] v.t = "bool" -> v.b
      [] v.t = "int"  -> v.n # 0
      [] v.t = "str"  -> v.s # ""
      [] v.t = "list" -> v.list # <<>>
      [] v.t = "dict" -> DOMAIN v.dict # {}

\* Python's `v or w`.
Or(v, w) == IF Truthy(v) THEN v ELSE w

\* args[key] = value on a dict.
SetItem(d, key, value) ==
    PyDict([k \in DOMAIN d.dict \cup {key} |->
             IF k = key THEN value ELSE d.dict[k]])

----------------------------------------------------------------------------
(* The HTTP exchange: what requests.get / requests.post, raise_for_status  *)
(* and Response.json() can do with one request.                            *)

\* str(e) of the RequestException a failed transport raises (ConnectionError,
\* Timeout): the library builds it from the underlying error's text.
TransportMessages == {"Connection refused", "Read timed out"}

\* Final status codes of a response: 2xx, a 3xx that is not followed (300 has
\* no Location to follow), 4xx and 5xx.
Statuses == {200, 300, 404, 500}

\* Response bodies, as text on the wire.
Bodies == {"{\"success\": true}", "[]", "<html>"}

\* What json decoding gives for the bodies that are JSON documents.
JsonTable ==
    ("{\"success\": true}" :> PyDict("success" :> PyBool(TRUE))) @@
    ("[]"                  :> PyList(<<>>))

JsonDecodable(body) == body \in DOMAIN JsonTable

\* response.json() on a decodable body.
JsonLoads(body) == JsonTable[body]

\* str(e) of the decoding error of a body that is no JSON document.
JsonErrorMessage == "Expecting value: line 1 column 1 (char 0)"

TransportFailure(msg) == [fail |-> TRUE, msg |-> msg, status |-> 0, body |-> ""]
Response(status, body) == [fail |-> FALSE, msg |-> "", status |-> status, body |-> body]

NoExchange == [fail |-> FALSE, msg |-> "", status |-> 0, body |-> ""]

Exchanges ==
    {TransportFailure(m) : m \in TransportMessages}
        \cup {Response(s, b) : s \in Statuses, b \in Bodies}

\* Mutant: only server errors raise.
RaisesForStatusServerOnly(status) == 500 <= status /\ status < 600

\* response.raise_for_status() raises HTTPError exactly for 4xx and 5xx.
RaisesForStatus(status) == 400 <= status /\ status < 600

\* str(e) of that HTTPError.
HTTPErrorMessage(status, url) ==
    ToString(status)
        \o (IF status < 500 THEN " Client Error" ELSE " Server Error")
        \o " for url: " \o url

----------------------------------------------------------------------------
(* What a call gives back to its caller.                                   *)

Returned(v) == [raised |-> FALSE, exc |-> "", value |-> v]
Raised(e)   == [raised |-> TRUE, exc |-> e, value |-> PyNone]

\* The envelope of the except clause.
ErrorEnvelope(message) ==
    PyDict("success" :> PyBool(FALSE) @@
           "error" :> PyDict("code" :> PyStr("NETWORK_ERROR") @@
                             "message" :> PyStr(message)))

----------------------------------------------------------------------------
(* _make_request                                                           *)

Headers ==
    "Content-Type" :> "application/json" @@
    "X-MCP-Session-ID" :> session_id @@
    "X-Client-Name" :> "kiro"

\* The call of requests.get(url, headers=) or requests.post(url, headers=,
\* json=): json is <<>> when no json argument is passed, <<d>> when d is.
BuildRequest(endpoint, method, data) ==
    LET url == base_url \o endpoint
    IN  IF method = "GET"
        THEN [verb |-> "GET", url |-> url, headers |-> Headers, json |-> <<>>]
        ELSE [verb |-> "POST", url |-> url, headers |-> Headers,
              json |-> <<Or(data, EmptyDict)>>]

\* Mutant: a decoded body is wrapped in a success envelope.
HandleExchangeWrapping(url, ex) ==
    IF ex.fail
    THEN Returned(ErrorEnvelope(ex.msg))
    ELSE IF RaisesForStatus(ex.status)
    THEN Returned(ErrorEnvelope(HTTPErrorMessage(ex.status, url)))
    ELSE IF JsonDecodable(ex.body)
    THEN Returned(PyDict("success" :> PyBool(TRUE) @@
                         "data" :> JsonLoads(ex.body)))
    ELSE IF jsonErrorIsRequestException
    THEN Returned(ErrorEnvelope(JsonErrorMessage))
    ELSE Raised("ValueError")

\* The rest of the try block and the except clause, for the exchange ex.
HandleExchange(url, ex) ==
    IF ex.fail
    THEN Returned(ErrorEnvelope(ex.msg))
    ELSE IF RaisesForStatus(ex.status)
    THEN Returned(ErrorEnvelope(HTTPErrorMessage(ex.status, url)))
    ELSE IF JsonDecodable(ex.body)
    THEN Returned(JsonLoads(ex.body))
    ELSE IF jsonErrorIsRequestException
    THEN Returned(ErrorEnvelope(JsonErrorMessage))
    ELSE Raised("ValueError")

\* Mutant: a failed request is sent once more.
_make_request_Retrying(endpoint, method, data, ex) ==
    LET req == BuildRequest(endpoint, method, data)
    IN  [sent   |-> IF ex.fail \/ (~ex.fail /\ RaisesForStatus(ex.status))
                    THEN <<req, req>> ELSE <<req>>,
         result |-> HandleExchange(req.url, ex)]

_make_request(endpoint, method, data, ex) ==
    LET req == BuildRequest(endpoint, method, data)
    IN  [sent |-> <<req>>, result |-> HandleExchange(req.url, ex)]

----------------------------------------------------------------------------
(* The public methods, each for the exchange ex its request meets.         *)

\* Mutant: the method argument is left at its default, POST.
health_check_Posting(ex) == _make_request("/health", "POST", PyNone, ex)

health_check(ex) == _make_request("/health", "GET", PyNone, ex)

list_tools(ex) == _make_request("/tools", "GET", PyNone, ex)

execute_tool(tool_name, args, ex) ==
    _make_request("/tools/" \o tool_name, "POST", Or(args, EmptyDict), ex)

\* Mutant: an empty list is not wrapped.
batch_execute_IfTools(tools, ex) ==
    _make_request("/tools/batch", "POST",
                  IF Truthy(tools) THEN PyDict("tools" :> tools) ELSE PyNone, ex)

batch_execute(tools, ex) ==
    _make_request("/tools/batch", "POST", PyDict("tools" :> tools), ex)

get_client_info(ex) == _make_request("/client", "GET", PyNone, ex)

----------------------------------------------------------------------------
(* The EasyPanel methods.                                                  *)

\* The default of every limit parameter.
DefaultLimit == 10

\* Mutant: search is tested against None instead of for truth.
list_projects_SearchNotNone(limit, search, ex) ==
    LET args0 == PyDict("limit" :> limit)
        args  == IF search # PyNone THEN SetItem(args0, "search", search) ELSE args0
    IN  execute_tool("projects_list", args, ex)

list_projects(limit, search, ex) ==
    LET args0 == PyDict("limit" :> limit)
        args  == IF Truthy(search) THEN SetItem(args0, "search", search) ELSE args0
    IN  execute_tool("projects_list", args, ex)

create_project(name, domain, ex) ==
    LET args0 == PyDict("name" :> name)
        args  == IF Truthy(domain) THEN SetItem(args0, "domain", domain) ELSE args0
    IN  execute_tool("projects_create", args, ex)

list_services(project, limit, ex) ==
    execute_tool("services_list",
                 PyDict("project" :> project @@ "limit" :> limit), ex)

create_service(project, name, image, ports, env_vars, ex) ==
    LET args0 == PyDict("project" :> project @@ "name" :> name @@ "image" :> image)
        args1 == IF Truthy(ports) THEN SetItem(args0, "ports", ports) ELSE args0
        args  == IF Truthy(env_vars)
                 THEN SetItem(args1, "env_vars", env_vars) ELSE args1
    IN  execute_tool("services_create", args, ex)

deploy_service(project, service, ex) ==
    execute_tool("services_deploy",
                 PyDict("project" :> project @@ "service" :> service), ex)

\* Mutant: the tool name is misspelt.
list_databases_Misnamed(limit, ex) ==
    execute_tool("database_list", PyDict("limit" :> limit), ex)

list_databases(limit, ex) ==
    execute_tool("databases_list", PyDict("limit" :> limit), ex)

create_database(name, type, project, ex) ==
    LET args0 == PyDict("name" :> name @@ "type" :> type)
        args  == IF Truthy(project)
                 THEN SetItem(args0, "project", project) ELSE args0
    IN  execute_tool("databases_create", args, ex)

get_system_status(ex) == execute_tool("system_status", PyNone, ex)

\* Mutant: cleanup_type is compared ignoring case.
cleanup_docker_IgnoringCase(cleanup_type, ex) ==
    IF cleanup_type \in {PyStr("images"), PyStr("Images")}
    THEN execute_tool("docker_cleanup_images", PyNone, ex)
    ELSE IF cleanup_type = PyStr("containers")
    THEN execute_tool("docker_cleanup_containers", PyNone, ex)
    ELSE IF cleanup_type = PyStr("volumes")
    THEN execute_tool("docker_volumes_cleanup", PyNone, ex)
    ELSE execute_tool("docker_system_prune", PyNone, ex)

cleanup_docker(cleanup_type, ex) ==
    IF cleanup_type = PyStr("images")
    THEN execute_tool("docker_cleanup_images", PyNone, ex)
    ELSE IF cleanup_type = PyStr("containers")
    THEN execute_tool("docker_cleanup_containers", PyNone, ex)
    ELSE IF cleanup_type = PyStr("volumes")
    THEN execute_tool("docker_volumes_cleanup", PyNone, ex)
    ELSE execute_tool("docker_system_prune", PyNone, ex)

----------------------------------------------------------------------------
(* Arguments the calls are explored with.                                  *)

DefaultBaseUrl == "http://localhost:3002/api"
BaseUrls == {DefaultBaseUrl, "https://panel.example/api"}

Limits == {PyInt(DefaultLimit), PyInt(0)}

\* A required string: empty or not.
Names == {PyStr(""), PyStr("app")}

\* An optional string: left at its default None, empty, or given.
OptionalStrings == {PyNone, PyStr(""), PyStr("web")}

PortsValues == {PyNone, PyList(<<>>), PyList(<<PyStr("80:80")>>)}

EnvVarsValues == {PyNone, EmptyDict, PyDict("DEBUG" :> PyStr("1"))}

CleanupTypes ==
    {PyStr("all"), PyStr("images"), PyStr("containers"), PyStr("volumes"),
     PyStr("Images")}

ToolNames == {"system_status", "batch"}

ToolArgs == {PyNone, EmptyDict, PyDict("limit" :> PyInt(5))}

StatusEntry == PyDict("name" :> PyStr("system_status"))
ProjectsEntry ==
    PyDict("name" :> PyStr("projects_list") @@
           "args" :> PyDict("limit" :> PyInt(5)))

ToolLists ==
    {PyList(<<>>), PyList(<<StatusEntry>>),
     PyList(<<ProjectsEntry, StatusEntry>>)}

----------------------------------------------------------------------------
(* The state machine: one action per public method, called by the client's *)
(* user with some arguments and meeting some exchange.                     *)

NoCall == [name |-> "", args |-> <<>>]

Init ==
    /\ base_url \in BaseUrls
    /\ session_id = "kiro_session"
    /\ jsonErrorIsRequestException \in BOOLEAN
    /\ call = NoCall
    /\ sent = <<>>
    /\ exchange = NoExchange
    /\ result = Returned(PyNone)
    /\ nCalls = 0
    /\ nRequests = 0

\* Mutant: a transport failure starts a new session.
Invoke_RenewingSession(name, kwargs, out, ex) ==
    /\ nCalls < MaxCalls
    /\ call' = [name |-> name, args |-> kwargs]
    /\ sent' = out.sent
    /\ exchange' = ex
    /\ result' = out.result
    /\ nCalls' = nCalls + 1
    /\ nRequests' = nRequests + Len(out.sent)
    /\ session_id' = IF ex.fail THEN "kiro_session_2" ELSE session_id
    /\ UNCHANGED <<base_url, jsonErrorIsRequestException>>

\* A call of method `name` with arguments kwargs, whose body gave `out` on
\* the exchange ex.  No method assigns an attribute of self.
Invoke(name, kwargs, out, ex) ==
    /\ nCalls < MaxCalls
    /\ call' = [name |-> name, args |-> kwargs]
    /\ sent' = out.sent
    /\ exchange' = ex
    /\ result' = out.result
    /\ nCalls' = nCalls + 1
    /\ nRequests' = nRequests + Len(out.sent)
    /\ UNCHANGED <<base_url, session_id, jsonErrorIsRequestException>>

HealthCheck ==
    \E ex \in Exchanges : Invoke("health_check", <<>>, health_check(ex), ex)

ListTools ==
    \E ex \in Exchanges : Invoke("list_tools", <<>>, list_tools(ex), ex)

GetClientInfo ==
    \E ex \in Exchanges : Invoke("get_client_info", <<>>, get_client_info(ex), ex)

ExecuteTool ==
    \E tool_name \in ToolNames, args \in ToolArgs, ex \in Exchanges :
        Invoke("execute_tool",
               "tool_name" :> PyStr(tool_name) @@ "args" :> args,
               execute_tool(tool_name, args, ex), ex)

BatchExecute ==
    \E tools \in ToolLists, ex \in Exchanges :
        Invoke("batch_execute", "tools" :> tools, batch_execute(tools, ex), ex)

ListProjects ==
    \E limit \in Limits, search \in OptionalStrings, ex \in Exchanges :
        Invoke("list_projects", "limit" :> limit @@ "search" :> search,
               list_projects(limit, search, ex), ex)

CreateProject ==
    \E name \in Names, domain \in OptionalStrings, ex \in Exchanges :
        Invoke("create_project", "name" :> name @@ "domain" :> domain,
               create_project(name, domain, ex), ex)

ListServices ==
    \E project \in Names, limit \in Limits, ex \in Exchanges :
        Invoke("list_services", "project" :> project @@ "limit" :> limit,
               list_services(project, limit, ex), ex)

CreateService ==
    \E project \in {PyStr("app")}, name \in {PyStr("web")},
       image \in {PyStr("nginx")}, ports \in PortsValues,
       env_vars \in EnvVarsValues, ex \in Exchanges :
        Invoke("create_service",
               "project" :> project @@ "name" :> name @@ "image" :> image @@
               "ports" :> ports @@ "env_vars" :> env_vars,
               create_service(project, name, image, ports, env_vars, ex), ex)

DeployService ==
    \E project \in {PyStr("app")}, service \in {PyStr("web")},
       ex \in Exchanges :
        Invoke("deploy_service", "project" :> project @@ "service" :> service,
               deploy_service(project, service, ex), ex)

ListDatabases ==
    \E limit \in Limits, ex \in Exchanges :
        Invoke("list_databases", "limit" :> limit, list_databases(limit, ex), ex)

CreateDatabase ==
    \E name \in {PyStr("db")}, type \in {PyStr("postgres")},
       project \in OptionalStrings, ex \in Exchanges :
        Invoke("create_database",
               "name" :> name @@ "type" :> type @@ "project" :> project,
               create_database(name, type, project, ex), ex)

GetSystemStatus ==
    \E ex \in Exchanges :
        Invoke("get_system_status", <<>>, get_system_status(ex), ex)

CleanupDocker ==
    \E cleanup_type \in CleanupTypes, ex \in Exchanges :
        Invoke("cleanup_docker", "cleanup_type" :> cleanup_type,
               cleanup_docker(cleanup_type, ex), ex)

Next ==
    \/ HealthCheck
    \/ ListTools
    \/ GetClientInfo
    \/ ExecuteTool
    \/ BatchExecute
    \/ ListProjects
    \/ CreateProject
    \/ ListServices
    \/ CreateService
    \/ DeployService
    \/ ListDatabases
    \/ CreateDatabase
    \/ GetSystemStatus
    \/ CleanupDocker

Spec == Init /\ [][Next]_vars

----------------------------------------------------------------------------
(* Properties.                                                             *)

\* Some public method has been called and has come back.
Called == call.name # ""

ConvenienceMethods ==
    {"list_projects", "create_project", "list_services", "create_service",
     "deploy_service", "list_databases", "create_database",
     "get_system_status", "cleanup_docker"}

\* r is a returned {success: False, error: {code: "NETWORK_ERROR", message: m}}
\* with m a non-empty string.
IsNetworkError(r) ==
    /\ ~r.raised
    /\ r.value.t = "dict"
    /\ DOMAIN r.value.dict = {"success", "error"}
    /\ r.value.dict["success"] = PyBool(FALSE)
    /\ LET e == r.value.dict["error"]
       IN  /\ e.t = "dict"
           /\ DOMAIN e.dict = {"code", "message"}
           /\ e.dict["code"] = PyStr("NETWORK_ERROR")
           /\ e.dict["message"].t = "str"
           /\ e.dict["message"].s # ""

\* C1 as stated: whenever the transport fails or the server answers with a
\* status that is not a success status (not 2xx), the method returns the
\* NETWORK_ERROR envelope with a non-empty message and raises nothing.
C1_NonSuccessStatusIsNetworkError ==
    (Called /\ (exchange.fail \/ exchange.status \notin 200..299))
        => IsNetworkError(result)

\* C1 amended: whenever the transport fails or the server answers with a 4xx
\* or 5xx status, the method returns the NETWORK_ERROR envelope with a
\* non-empty message and raises nothing.
C1_ErrorStatusIsNetworkError ==
    (Called /\ (exchange.fail \/ exchange.status \in 400..599))
        => IsNetworkError(result)

\* A convenience method met a 404 and returned the envelope.
C1_Witness ==
    /\ call.name = "create_service"
    /\ ~exchange.fail
    /\ exchange.status = 404
    /\ IsNetworkError(result)

\* C2: every call returns a mapping and raises nothing, whatever the
\* exchange did.
C2_EveryCallReturnsMapping ==
    Called => (~result.raised /\ result.value.t = "dict")

\* C3: on a success status with a decodable body, the method returns exactly
\* the decoded body.
C3_SuccessReturnsDecodedBody ==
    (Called /\ ~exchange.fail /\ exchange.status \in 200..299
            /\ JsonDecodable(exchange.body))
        => result = Returned(JsonLoads(exchange.body))

\* A convenience method got a 200 with a JSON object and returned it.
C3_Witness ==
    /\ call.name = "list_projects"
    /\ ~exchange.fail
    /\ exchange.status = 200
    /\ exchange.body = "{\"success\": true}"
    /\ result = Returned(PyDict("success" :> PyBool(TRUE)))

\* The parameters every call of the method sends, and those it sends only
\* when they are given: the documented argument mapping.
RequiredParams ==
    "list_projects"     :> {"limit"} @@
    "create_project"    :> {"name"} @@
    "list_services"     :> {"project", "limit"} @@
    "create_service"    :> {"project", "name", "image"} @@
    "deploy_service"    :> {"project", "service"} @@
    "list_databases"    :> {"limit"} @@
    "create_database"   :> {"name", "type"} @@
    "get_system_status" :> {} @@
    "cleanup_docker"    :> {}

OptionalParams ==
    "list_projects"     :> {"search"} @@
    "create_project"    :> {"domain"} @@
    "list_services"     :> {} @@
    "create_service"    :> {"ports", "env_vars"} @@
    "deploy_service"    :> {} @@
    "list_databases"    :> {} @@
    "create_database"   :> {"project"} @@
    "get_system_status" :> {} @@
    "cleanup_docker"    :> {}

DocumentedBody(c) ==
    LET keys == RequiredParams[c.name]
                    \cup {k \in OptionalParams[c.name] : Truthy(c.args[k])}
    IN  PyDict([k \in keys |-> c.args[k]])

\* C4: the JSON body of a convenience method's POST is its required
\* parameters plus exactly the optional ones whose value is not falsy; a
\* method that builds no arguments sends the empty mapping.
C4_BodyIsDocumentedArguments ==
    call.name \in ConvenienceMethods
        => /\ Len(sent) = 1
           /\ sent[1].json = <<DocumentedBody(call)>>

\* create_service given a port list and an empty env_vars mapping: ports is
\* sent, env_vars is not.
C4_Witness ==
    /\ call.name = "create_service"
    /\ call.args["ports"] = PyList(<<PyStr("80:80")>>)
    /\ call.args["env_vars"] = EmptyDict
    /\ Len(sent) = 1
    /\ sent[1].json =
          <<PyDict("project" :> PyStr("app") @@ "name" :> PyStr("web") @@
                   "image" :> PyStr("nginx") @@
                   "ports" :> PyList(<<PyStr("80:80")>>))>>

CleanupToolFor(cleanup_type) ==
    CASE cleanup_type = PyStr("images")     -> "docker_cleanup_images"
      [] cleanup_type = PyStr("containers") -> "docker_cleanup_containers"
      [] cleanup_type = PyStr("volumes")    -> "docker_volumes_cleanup"
      [] OTHER                              -> "docker_system_prune"

\* C5: cleanup_docker requests exactly one tool, chosen by exact comparison
\* of cleanup_type, with the empty mapping as body.
C5_CleanupDispatch ==
    call.name = "cleanup_docker"
        => /\ Len(sent) = 1
           /\ sent[1].verb = "POST"
           /\ sent[1].url =
                 base_url \o "/tools/" \o CleanupToolFor(call.args["cleanup_type"])
           /\ sent[1].json = <<EmptyDict>>

\* cleanup_docker("Images") differs from "images" in case only and prunes.
C5_Witness ==
    /\ call.name = "cleanup_docker"
    /\ call.args["cleanup_type"] = PyStr("Images")
    /\ Len(sent) = 1
    /\ sent[1].url = base_url \o "/tools/docker_system_prune"

FixedTool ==
    "list_projects"     :> "projects_list" @@
    "create_project"    :> "projects_create" @@
    "list_services"     :> "services_list" @@
    "create_service"    :> "services_create" @@
    "deploy_service"    :> "services_deploy" @@
    "list_databases"    :> "databases_list" @@
    "create_database"   :> "databases_create" @@
    "get_system_status" :> "system_status"

\* The twelve tool names of the external interface.
SpecToolNames ==
    {"projects_list", "projects_create", "services_list", "services_create",
     "services_deploy", "databases_list", "databases_create", "system_status",
     "docker_cleanup_images", "docker_cleanup_containers",
     "docker_volumes_cleanup", "docker_system_prune"}

\* The URLs the convenience methods request, over all their arguments.
ConvenienceUrls ==
    LET ex == NoExchange
        U(out) == out.sent[1].url
    IN  {U(list_projects(l, q, ex)) : l \in Limits, q \in OptionalStrings}
        \cup {U(create_project(n, d, ex)) : n \in Names, d \in OptionalStrings}
        \cup {U(list_services(p, l, ex)) : p \in Names, l \in Limits}
        \cup {U(create_service(PyStr("app"), PyStr("web"), PyStr("nginx"), po, e, ex)) :
                 po \in PortsValues, e \in EnvVarsValues}
        \cup {U(deploy_service(PyStr("app"), PyStr("web"), ex))}
        \cup {U(list_databases(l, ex)) : l \in Limits}
        \cup {U(create_database(PyStr("db"), PyStr("postgres"), p, ex)) :
                 p \in OptionalStrings}
        \cup {U(get_system_status(ex))}
        \cup {U(cleanup_docker(c, ex)) : c \in CleanupTypes}

\* C6: a convenience method POSTs to base_url + "/tools/" + its fixed tool
\* name whatever its arguments, never to /tools/batch, and the tools the
\* convenience methods can request are exactly the twelve of the interface.
C6_FixedToolEndpoints ==
    /\ call.name \in DOMAIN FixedTool
          => /\ Len(sent) = 1
             /\ sent[1].verb = "POST"
             /\ sent[1].url = base_url \o "/tools/" \o FixedTool[call.name]
    /\ call.name \in ConvenienceMethods
          => \A i \in 1..Len(sent) :
                /\ sent[i].verb = "POST"
                /\ sent[i].url # base_url \o "/tools/batch"
    /\ ConvenienceUrls = {base_url \o "/tools/" \o t : t \in SpecToolNames}

\* list_databases with a limit of 0 still goes to databases_list.
C6_Witness ==
    /\ call.name = "list_databases"
    /\ call.args["limit"] = PyInt(0)
    /\ Len(sent) = 1
    /\ sent[1].verb = "POST"
    /\ sent[1].url = base_url \o "/tools/databases_list"

GetEndpoint ==
    "health_check" :> "/health" @@
    "list_tools" :> "/tools" @@
    "get_client_info" :> "/client"

\* C7: health_check, list_tools and get_client_info each issue one GET to
\* their endpoint, a GET carries no body, and every other method POSTs.
C7_GetMethods ==
    /\ call.name \in DOMAIN GetEndpoint
          => /\ Len(sent) = 1
             /\ sent[1].verb = "GET"
             /\ sent[1].url = base_url \o GetEndpoint[call.name]
    /\ \A i \in 1..Len(sent) : sent[i].verb = "GET" => sent[i].json = <<>>
    /\ (Called /\ call.name \notin DOMAIN GetEndpoint)
          => \A i \in 1..Len(sent) :
                sent[i].verb = "POST" /\ Len(sent[i].json) = 1

\* health_check sent a GET to /health without a body.
C7_Witness ==
    /\ call.name = "health_check"
    /\ Len(sent) = 1
    /\ sent[1].verb = "GET"
    /\ sent[1].url = base_url \o "/health"
    /\ sent[1].json = <<>>

\* C8: batch_execute(tools) POSTs {"tools": tools} to /tools/batch, the list
\* in the same order and every entry unchanged, the empty list included.
C8_BatchBody ==
    call.name = "batch_execute"
        => /\ Len(sent) = 1
           /\ sent[1].verb = "POST"
           /\ sent[1].url = base_url \o "/tools/batch"
           /\ sent[1].json = <<PyDict("tools" :> call.args["tools"])>>

\* batch_execute([]) sent {"tools": []}.
C8_Witness ==
    /\ call.name = "batch_execute"
    /\ call.args["tools"] = PyList(<<>>)
    /\ Len(sent) = 1
    /\ sent[1].json = <<PyDict("tools" :> PyList(<<>>))>>

C10_ClientStateUnchanged ==
    [][ /\ base_url' = base_url
        /\ session_id' = session_id
        /\ session_id' = "kiro_session"
        /\ \A i \in 1..Len(sent') :
              /\ sent'[i].headers["X-MCP-Session-ID"] = "kiro_session"
              /\ sent'[i].headers["X-Client-Name"] = "kiro"
              /\ sent'[i].headers["Content-Type"] = "application/json"
      ]_vars

\* After a failed call and a second call, on a client built with another
\* base URL, the attributes are those of construction.
C10_Witness ==
    /\ nCalls = 2
    /\ IsNetworkError(result)
    /\ base_url = "https://panel.example/api"
    /\ session_id = "kiro_session"
    /\ sent[1].headers["X-MCP-Session-ID"] = "kiro_session"

====
